---- MODULE Spec2Model ----
(***************************************************************************)
(* Invoice creation of contabilitate-api (src/main.py, second revision of  *)
(* the service, lines 183-519): POST /invoices allocates the next invoice  *)
(* number of a (company_id, series, year) scope under a PostgreSQL         *)
(* transaction-scoped advisory lock and writes the invoice row and its     *)
(* line rows in one transaction.                                           *)
(*                                                                         *)
(* Every request runs in a thread of its own (a slot).  The store is       *)
(* PostgreSQL under its default isolation level, READ COMMITTED: a         *)
(* statement sees the rows committed before it starts and the rows its own *)
(* transaction wrote.                                                      *)
(*                                                                         *)
(* Money is exact fixed point.  A quantity is counted in tenths, a price   *)
(* in cents, a VAT rate in whole percent; every unrounded amount is        *)
(* counted in units of 10^-5 (one cent is 1000 units), and a persisted     *)
(* amount in cents.                                                        *)
(***************************************************************************)
EXTENDS Integers, Sequences, FiniteSets, TLC

\* Number of create_invoice requests the environment sends.
MaxRequests == 3

Slots == 1..MaxRequests

VARIABLES
    pc,         \* slot -> position of the request's handler
    req,        \* slot -> the request payload (InvoiceCreate)
    number,     \* slot -> the number next_invoice_number returned (0: none)
    invId,      \* slot -> the id the invoice INSERT returned (0: none)
    txInvoice,  \* slot -> invoice rows written and not yet committed
    txLines,    \* slot -> invoice_lines rows written and not yet committed
    locks,      \* advisory locks held: pairs <<owner, key>>
    invoices,   \* committed rows of table invoices, in commit order
    lines,      \* committed rows of table invoice_lines
    idSeq,      \* last value of the sequence invoices_id_seq
    abandoned,  \* history: <<company_id, series, year, number>> allocated by
                \* a transaction that rolled back
    pool,       \* the payloads the clients send
    kA, kB      \* the two scopes of the lock-key specification

vars == <<pc, req, number, invId, txInvoice, txLines, locks, invoices, lines,
          idSeq, abandoned, pool, kA, kB>>

-----------------------------------------------------------------------------
(* Tables the invoice transaction only reads *)

\* A series is the sequence of the code points of its characters.
ROS == <<82, 79, 83>>
SCC == <<83, 67, 67>>
OD  == <<79, 68>>
HH  == <<72, 72>>
LC  == <<99>>
LD  == <<100>>

\* Rows of table companies after admin_seed: id -> invoice_series.
Companies == (1 :> ROS) @@ (2 :> SCC) @@ (3 :> OD)

\* Rows of table clients: id -> company_id.
Clients == (1 :> 1) @@ (2 :> 2)

CompanyFoundAlways(company_id) == TRUE

\* create_invoice: SELECT invoice_series FROM companies WHERE id=:id; "if not comp".
CompanyFound(company_id) == company_id \in DOMAIN Companies

\* comp["invoice_series"]
SeriesOf(company_id) ==
    IF company_id \in DOMAIN Companies THEN Companies[company_id] ELSE <<>>

\* invoices.client_id INT NOT NULL REFERENCES clients(id): the foreign key
\* names the client's id alone.
ClientFkHolds(client_id) == client_id \in DOMAIN Clients

-----------------------------------------------------------------------------
(* Request payloads *)

\* A description the driver cannot store (a text with a NUL character).
NulText == "nul"

\* InvoiceLineCreate: qty in tenths, price in cents, vat_rate in percent.
Svc  == [description |-> "svc",   qty |-> 20, price |-> 10000, vat_rate |-> 19]
Tiny == [description |-> "tiny",  qty |-> 4,  price |-> 1,     vat_rate |-> 100]
Bad  == [description |-> NulText, qty |-> 10, price |-> 100,   vat_rate |-> 0]
Zero == [description |-> "zero",  qty |-> 0,  price |-> 100,   vat_rate |-> 19]

LineLists == { <<>>, <<Svc>>, <<Svc, Tiny>>, <<Svc, Bad>>, <<Zero>> }

\* The request every other request differs from in one field.
Base == [company_id |-> 1, client_id |-> 1, year |-> 2024, lines |-> <<Svc>>]

\* 9 names no company, 7 no client; client 2 belongs to company 2.
Payloads ==
    {[Base EXCEPT !.company_id = c] : c \in {1, 9}}
    \cup {[Base EXCEPT !.client_id = c] : c \in {1, 2, 7}}
    \cup {[Base EXCEPT !.year = y] : y \in {2024, 2025}}
    \cup {[Base EXCEPT !.lines = l] : l \in LineLists}

NoRequest == [company_id |-> 0, client_id |-> 0, year |-> 0, lines |-> <<>>]

\* InvoiceLineCreate: qty Field(gt=0), price Field(ge=0), vat_rate Field(ge=0, le=100).
LineValid(ln) ==
    /\ ln.qty > 0
    /\ ln.price >= 0
    /\ ln.vat_rate >= 0
    /\ ln.vat_rate <= 100

\* InvoiceCreate: lines: List[InvoiceLineCreate], a list of any length.
PayloadValid(p) == \A i \in 1..Len(p.lines) : LineValid(p.lines[i])

-----------------------------------------------------------------------------
(* next_invoice_number *)

RECURSIVE SumOrd(_)
\* sum(ord(c) for c in series)
SumOrd(series) ==
    IF series = <<>> THEN 0 ELSE Head(series) + SumOrd(Tail(series))

LockKeyNoFold(company_id, series, year) ==
    (company_id * 1000000) + (year * 100) + SumOrd(series)

\* key = (company_id * 1000000) + (year * 100) + (sum(ord(c) for c in series) % 100)
LockKey(company_id, series, year) ==
    (company_id * 1000000) + (year * 100) + (SumOrd(series) % 100)

CanAcquireShared(held, owner, key) == TRUE

\* pg_advisory_xact_lock(key): granted when no other transaction holds the key.
CanAcquire(held, owner, key) ==
    \A l \in held : l[2] = key => l[1] = owner

ReleaseLocksNever(held, owner) == held

\* The end of a transaction, commit or rollback, releases its advisory locks.
ReleaseLocks(held, owner) == {l \in held : l[1] # owner}

\* MAX over a set of numbers; COALESCE(..., 0) when there is none.
MaxOf(S) ==
    IF S = {} THEN 0
    ELSE LET x == CHOOSE y \in S : \A z \in S : z <= y IN x

ScopeNumbersAnyYear(rows, company_id, series, year) ==
    {rows[i].number : i \in {j \in 1..Len(rows) :
        /\ rows[j].company_id = company_id
        /\ rows[j].series = series}}

\* WHERE company_id=:company_id AND series=:series AND year=:year
ScopeNumbers(rows, company_id, series, year) ==
    {rows[i].number : i \in {j \in 1..Len(rows) :
        /\ rows[j].company_id = company_id
        /\ rows[j].series = series
        /\ rows[j].year = year}}

\* SELECT COALESCE(MAX(number), 0) ...; return int(r["max_no"]) + 1
NextInvoiceNumber(rows, company_id, series, year) ==
    MaxOf(ScopeNumbers(rows, company_id, series, year)) + 1

-----------------------------------------------------------------------------
(* Totals *)

\* round(x, 2) of an amount of x units, in cents; a tie goes to the even cent.
Round2(x) ==
    LET q == x \div 1000
        r == x % 1000
    IN  IF 2 * r < 1000 THEN q
        ELSE IF 2 * r > 1000 THEN q + 1
        ELSE IF q % 2 = 0 THEN q ELSE q + 1

\* line_sub = float(ln.qty) * float(ln.price)
LineSub(ln) == ln.qty * ln.price * 100

\* line_vat = line_sub * float(ln.vat_rate) / 100.0
LineVat(ln) == ln.qty * ln.price * ln.vat_rate

\* line_tot = line_sub + line_vat
LineTot(ln) == LineSub(ln) + LineVat(ln)

RECURSIVE SumSub(_)
\* subtotal += line_sub
SumSub(lns) == IF lns = <<>> THEN 0 ELSE LineSub(Head(lns)) + SumSub(Tail(lns))

RECURSIVE SumVat(_)
\* vat_total += line_vat
SumVat(lns) == IF lns = <<>> THEN 0 ELSE LineVat(Head(lns)) + SumVat(Tail(lns))

\* The row of INSERT INTO invoices ... RETURNING id, ...
InvoiceRow(id, p, series, num) ==
    [id         |-> id,
     company_id |-> p.company_id,
     client_id  |-> p.client_id,
     series     |-> series,
     year       |-> p.year,
     number     |-> num,
     subtotal   |-> Round2(SumSub(p.lines)),
     vat_total  |-> Round2(SumVat(p.lines)),
     total      |-> Round2(SumSub(p.lines) + SumVat(p.lines))]

\* The row of INSERT INTO invoice_lines for line line_no of the request.
LineRow(id, line_no, ln) ==
    [invoice_id    |-> id,
     line_no       |-> line_no,
     qty           |-> ln.qty,
     price         |-> ln.price,
     vat_rate      |-> ln.vat_rate,
     line_subtotal |-> Round2(LineSub(ln)),
     line_vat      |-> Round2(LineVat(ln)),
     line_total    |-> Round2(LineTot(ln))]

LineRowsFirstOnly(id, lns, n) ==
    {LineRow(id, i, lns[i]) : i \in 1..(IF n > 1 THEN 1 ELSE n)}

\* The rows the loop over computed_lines writes for lines 1..n.
LineRows(id, lns, n) == {LineRow(id, i, lns[i]) : i \in 1..n}

\* Whether the driver and the columns of invoice_lines take the line's values.
Storable(ln) == ln.description # NulText

\* Lines written before the first line the store refuses (all, when none is).
StorablePrefix(lns) ==
    LET bad == {i \in 1..Len(lns) : ~Storable(lns[i])}
    IN  IF bad = {} THEN Len(lns)
        ELSE (CHOOSE i \in bad : \A j \in bad : i <= j) - 1

-----------------------------------------------------------------------------
(* Transactions: with engine.begin() as conn *)

AfterRollbackKeeps(committed, pending) == committed \o pending

\* Leaving the with block by an exception rolls back: pending rows are dropped.
AfterRollback(committed, pending) == committed

\* Leaving the with block normally commits: pending rows become visible.
AfterCommit(committed, pending) == committed \o pending

\* A scope is <<company_id, series, year>>.
NoScope == <<0, <<>>, 0>>

\* No request has arrived; the tables invoices and invoice_lines are empty.
Idle ==
    /\ pc = [s \in Slots |-> "new"]
    /\ req = [s \in Slots |-> NoRequest]
    /\ number = [s \in Slots |-> 0]
    /\ invId = [s \in Slots |-> 0]
    /\ txInvoice = [s \in Slots |-> <<>>]
    /\ txLines = [s \in Slots |-> {}]
    /\ locks = {}
    /\ invoices = <<>>
    /\ lines = {}
    /\ idSeq = 0
    /\ abandoned = {}

Init ==
    /\ Idle
    /\ pool = Payloads
    /\ kA = NoScope
    /\ kB = NoScope

KeyOf(s) == LockKey(req[s].company_id, SeriesOf(req[s].company_id), req[s].year)

ScopeOf(s) == <<req[s].company_id, SeriesOf(req[s].company_id), req[s].year>>

\* The request arrives: pydantic validates the payload (422), the transaction
\* opens and the company is looked up (400 "Invalid company_id").
Submit(s, p) ==
    /\ pc[s] = "new"
    /\ req' = [req EXCEPT ![s] = p]
    /\ pc' = [pc EXCEPT ![s] =
                IF ~PayloadValid(p) THEN "err422"
                ELSE IF ~CompanyFound(p.company_id) THEN "err400"
                ELSE "begun"]
    /\ UNCHANGED <<number, invId, txInvoice, txLines, locks, invoices, lines,
                   idSeq, abandoned, pool, kA, kB>>

\* next_invoice_number: SELECT pg_advisory_xact_lock(:k) returns.
Acquire(s) ==
    /\ pc[s] = "begun"
    /\ CanAcquire(locks, s, KeyOf(s))
    /\ locks' = locks \cup {<<s, KeyOf(s)>>}
    /\ pc' = [pc EXCEPT ![s] = "locked"]
    /\ UNCHANGED <<req, number, invId, txInvoice, txLines, invoices, lines,
                   idSeq, abandoned, pool, kA, kB>>

\* next_invoice_number: SELECT COALESCE(MAX(number), 0) + 1 over committed rows.
SelectMax(s) ==
    /\ pc[s] = "locked"
    /\ number' = [number EXCEPT ![s] =
            NextInvoiceNumber(invoices, req[s].company_id,
                              SeriesOf(req[s].company_id), req[s].year)]
    /\ pc' = [pc EXCEPT ![s] = "numbered"]
    /\ UNCHANGED <<req, invId, txInvoice, txLines, locks, invoices, lines,
                   idSeq, abandoned, pool, kA, kB>>

\* An exception leaves the with block: the transaction rolls back, its locks
\* are released and the request ends with a server error.
Rollback(s) ==
    /\ invoices' = AfterRollback(invoices, txInvoice[s])
    /\ lines' = lines
    /\ locks' = ReleaseLocks(locks, s)
    /\ txInvoice' = [txInvoice EXCEPT ![s] = <<>>]
    /\ txLines' = [txLines EXCEPT ![s] = {}]
    /\ abandoned' = abandoned \cup
            {<<req[s].company_id, SeriesOf(req[s].company_id), req[s].year,
               number[s]>>}
    /\ pc' = [pc EXCEPT ![s] = "err500"]

SameIdentity(r, q) ==
    /\ r.company_id = q.company_id
    /\ r.series = q.series
    /\ r.year = q.year
    /\ r.number = q.number

\* INSERT INTO invoices ... RETURNING id.  The foreign key on client_id and
\* UNIQUE(company_id, series, year, number) are checked; an insert that meets
\* the same identity in a transaction still open waits for it to end.
InsertInvoice(s) ==
    LET row == InvoiceRow(idSeq + 1, req[s], SeriesOf(req[s].company_id),
                          number[s])
    IN  /\ pc[s] = "numbered"
        /\ \A t \in Slots \ {s} :
              \A i \in 1..Len(txInvoice[t]) : ~SameIdentity(txInvoice[t][i], row)
        /\ idSeq' = idSeq + 1
        /\ IF /\ ClientFkHolds(req[s].client_id)
              /\ \A i \in 1..Len(invoices) : ~SameIdentity(invoices[i], row)
           THEN /\ txInvoice' = [txInvoice EXCEPT ![s] = <<row>>]
                /\ invId' = [invId EXCEPT ![s] = row.id]
                /\ pc' = [pc EXCEPT ![s] = "inserted"]
                /\ UNCHANGED <<txLines, locks, invoices, lines, abandoned>>
           ELSE /\ Rollback(s)
                /\ UNCHANGED invId
        /\ UNCHANGED <<req, number, pool, kA, kB>>

\* for ... in computed_lines: INSERT INTO invoice_lines.  The first line the
\* store refuses raises, after the lines before it were written.
InsertLines(s) ==
    LET n == StorablePrefix(req[s].lines)
    IN  /\ pc[s] = "inserted"
        /\ IF n = Len(req[s].lines)
           THEN /\ txLines' = [txLines EXCEPT ![s] =
                                  LineRows(invId[s], req[s].lines, n)]
                /\ pc' = [pc EXCEPT ![s] = "lined"]
                /\ UNCHANGED <<txInvoice, locks, invoices, lines, abandoned>>
           ELSE Rollback(s)
        /\ UNCHANGED <<req, number, invId, idSeq, pool, kA, kB>>

\* The with block ends: commit, and the response {"ok": True, ...}.
Commit(s) ==
    /\ pc[s] = "lined"
    /\ invoices' = AfterCommit(invoices, txInvoice[s])
    /\ lines' = lines \cup txLines[s]
    /\ locks' = ReleaseLocks(locks, s)
    /\ txInvoice' = [txInvoice EXCEPT ![s] = <<>>]
    /\ txLines' = [txLines EXCEPT ![s] = {}]
    /\ pc' = [pc EXCEPT ![s] = "ok"]
    /\ UNCHANGED <<req, number, invId, idSeq, abandoned, pool, kA, kB>>

Handler(s) ==
    Acquire(s) \/ SelectMax(s) \/ InsertInvoice(s) \/ InsertLines(s) \/ Commit(s)

Next ==
    \/ \E s \in Slots, p \in pool : Submit(s, p)
    \/ \E s \in Slots : Acquire(s)
    \/ \E s \in Slots : SelectMax(s)
    \/ \E s \in Slots : InsertInvoice(s)
    \/ \E s \in Slots : InsertLines(s)
    \/ \E s \in Slots : Commit(s)

Spec == Init /\ [][Next]_vars

-----------------------------------------------------------------------------
(* Fairness: a handler thread that can take its next step takes it; the     *)
(* clients need not send a request.  The requests are those that differ in  *)
(* the lock key or in how the transaction ends.                             *)

LockPayloads ==
    {[Base EXCEPT !.year = y] : y \in {2024, 2025}}
    \cup {[Base EXCEPT !.lines = l] : l \in {<<Svc>>, <<Svc, Bad>>}}

FairInit ==
    /\ Idle
    /\ pool = LockPayloads
    /\ kA = NoScope
    /\ kB = NoScope

FairSpec ==
    FairInit /\ [][Next]_vars /\ \A s \in Slots : WF_vars(Handler(s))

-----------------------------------------------------------------------------
(* The lock key as a function of the scope: two transactions A (owner 1)    *)
(* and B (owner 2) allocate in scopes drawn from ScopeInputs.               *)

ScopeInputs ==
    {<<c, ser, y>> : c \in {1, 2, 3, 2000}, ser \in {ROS, SCC, OD, HH, LC, LD},
                     y \in {1, 2024, 2025, 9999}}

KScope(i) == IF i = 1 THEN kA ELSE kB

KKey(i) == LockKey(KScope(i)[1], KScope(i)[2], KScope(i)[3])

KHolds(i) == \E l \in locks : l[1] = i

KInit ==
    /\ Idle
    /\ pool = {}
    /\ kA \in ScopeInputs
    /\ kB \in ScopeInputs

\* SELECT pg_advisory_xact_lock(:k) of transaction i returns.
KAcquire(i) ==
    /\ ~KHolds(i)
    /\ CanAcquire(locks, i, KKey(i))
    /\ locks' = locks \cup {<<i, KKey(i)>>}
    /\ UNCHANGED <<pc, req, number, invId, txInvoice, txLines, invoices, lines,
                   idSeq, abandoned, pool, kA, kB>>

\* Transaction i ends.
KEnd(i) ==
    /\ KHolds(i)
    /\ locks' = ReleaseLocks(locks, i)
    /\ UNCHANGED <<pc, req, number, invId, txInvoice, txLines, invoices, lines,
                   idSeq, abandoned, pool, kA, kB>>

KNext ==
    \/ \E i \in {1, 2} : KAcquire(i)
    \/ \E i \in {1, 2} : KEnd(i)

KeySpec == KInit /\ [][KNext]_vars

-----------------------------------------------------------------------------
(* Properties *)

InTx == {"locked", "numbered", "inserted", "lined"}

Ended == {"ok", "err422", "err400", "err500"}

RowScope(r) == <<r.company_id, r.series, r.year>>

\* How many of the first n committed invoices lie in scope sc.
ScopeCount(sc, n) == Cardinality({j \in 1..n : RowScope(invoices[j]) = sc})

Committable(p) ==
    /\ p.client_id \in DOMAIN Clients
    /\ \A i \in 1..Len(p.lines) : p.lines[i].description # NulText

\* C1: in every scope the committed invoices carry, in commit order, the
\* numbers 1, 2, 3, ... (so no two share an identity), and no request that
\* names an existing client and storable lines is lost to a conflict.
C1_DistinctSequential ==
    /\ \A i \in 1..Len(invoices) :
          invoices[i].number = ScopeCount(RowScope(invoices[i]), i)
    /\ \A s \in Slots : pc[s] = "err500" => ~Committable(req[s])

C1_Witness ==
    \E s, t, u \in Slots :
        /\ pc[s] = "ok" /\ number[s] = 1
        /\ pc[t] = "inserted" /\ number[t] = 2
        /\ pc[u] = "begun"
        /\ ScopeOf(s) = ScopeOf(t) /\ ScopeOf(t) = ScopeOf(u)

C3_AllOrNothing ==
    /\ \A s \in Slots : pc[s] = "ok" =>
          LET mine == {l \in lines : l.invoice_id = invId[s]}
          IN  /\ Cardinality({i \in 1..Len(invoices) :
                                  invoices[i].id = invId[s]}) = 1
              /\ Cardinality(mine) = Len(req[s].lines)
              /\ \A k \in 1..Len(req[s].lines) :
                    \E l \in mine :
                        /\ l.line_no = k
                        /\ l.qty = req[s].lines[k].qty
                        /\ l.price = req[s].lines[k].price
                        /\ l.vat_rate = req[s].lines[k].vat_rate
    /\ \A l \in lines : \E i \in 1..Len(invoices) : invoices[i].id = l.invoice_id
    /\ \A i \in 1..Len(invoices) :
          \E s \in Slots : pc[s] = "ok" /\ invId[s] = invoices[i].id
    /\ \A s \in Slots : pc[s] \in {"err422", "err400", "err500"} =>
          /\ \A i \in 1..Len(invoices) : invoices[i].id # invId[s]
          /\ \A l \in lines : l.invoice_id # invId[s]

C3_Witness ==
    \E s, t \in Slots :
        /\ pc[s] = "ok" /\ Len(req[s].lines) = 2
        /\ pc[t] = "err500" /\ invId[t] # 0 /\ Len(req[t].lines) = 2

\* C4 (as claimed): a request whose client belongs to another company than
\* its company_id ends in an error, and no committed invoice names a client
\* of another company.
C4_CrossTenantRejected ==
    /\ \A s \in Slots :
          (/\ req[s].client_id \in DOMAIN Clients
           /\ Clients[req[s].client_id] # req[s].company_id) => pc[s] # "ok"
    /\ \A i \in 1..Len(invoices) :
          Clients[invoices[i].client_id] = invoices[i].company_id

\* C5 (as claimed): a request with an empty lines list ends in the
\* validation error, with no number taken and no invoice committed.
C5_EmptyLinesRejected ==
    \A s \in Slots :
        (pc[s] \in Ended /\ req[s].lines = <<>>) =>
            /\ pc[s] = "err422"
            /\ number[s] = 0
            /\ \A i \in 1..Len(invoices) : invoices[i].id # invId[s]

\* C6: a valid request whose company_id names no company ends in the
\* "Invalid company_id" error without ever holding an advisory lock, being
\* allocated a number or writing a row.
C6_UnknownCompany ==
    \A s \in Slots :
        (/\ pc[s] # "new"
         /\ req[s].company_id \notin DOMAIN Companies
         /\ \A k \in 1..Len(req[s].lines) : req[s].lines[k].qty > 0) =>
            /\ pc[s] = "err400"
            /\ \A l \in locks : l[1] # s
            /\ number[s] = 0
            /\ invId[s] = 0
            /\ txInvoice[s] = <<>> /\ txLines[s] = {}
            /\ \A i \in 1..Len(invoices) :
                  invoices[i].company_id # req[s].company_id

C6_Witness ==
    \E s, t \in Slots :
        /\ pc[s] = "err400" /\ req[s].company_id = 9
        /\ pc[t] = "ok"
        /\ Len(invoices) = 1 /\ idSeq = 1

\* C7: the number a request is allocated is one more than the count of
\* committed invoices of its own (company_id, series, year); invoices of
\* other years do not enter it.
C7_PerScope ==
    \A s \in Slots :
        pc[s] \in {"numbered", "inserted", "lined"} =>
            number[s] = ScopeCount(ScopeOf(s), Len(invoices)) + 1

C7_Witness ==
    \E s \in Slots :
        /\ pc[s] = "numbered" /\ req[s].year = 2025 /\ number[s] = 1
        /\ Len(invoices) = 2
        /\ invoices[1].year = 2024 /\ invoices[1].number = 1
        /\ invoices[2].year = 2024 /\ invoices[2].number = 2

\* C8 (as claimed): the persisted total of every committed invoice is its
\* persisted subtotal plus its persisted vat_total, rounded to cents.
C8_TotalIsSum ==
    \A i \in 1..Len(invoices) :
        invoices[i].total = invoices[i].subtotal + invoices[i].vat_total

\* C9: two scopes that differ in company_id or in year have different lock
\* keys, so neither transaction is ever refused the lock because of the
\* other; two different scopes with one key differ in the series alone.
C9_KeysApart ==
    LET differ == kA[1] # kB[1] \/ kA[3] # kB[3]
    IN  /\ differ => KKey(1) # KKey(2)
        /\ differ => \A i \in {1, 2} :
                        \A l \in locks : l[1] # i => l[2] # KKey(i)
        /\ (KKey(1) = KKey(2) /\ kA # kB) =>
              (kA[1] = kB[1] /\ kA[3] = kB[3] /\ kA[2] # kB[2])

C9_Witness ==
    /\ kA[1] = kB[1] /\ kA[2] = kB[2] /\ kA[3] # kB[3]
    /\ KHolds(1) /\ KHolds(2)

\* C10: no key is held by two transactions; a request holds the lock of its
\* scope exactly from the lock's grant to the end of its transaction; and
\* every request that waits for the lock ends, committed or rolled back.
C10_LockLifetime ==
    /\ [](\A l1, l2 \in locks : l1[2] = l2[2] => l1[1] = l2[1])
    /\ [](\A s \in Slots :
            /\ pc[s] \in InTx => {l \in locks : l[1] = s} = {<<s, KeyOf(s)>>}
            /\ pc[s] \notin InTx => \A l \in locks : l[1] # s)
    /\ \A s \in Slots : (pc[s] = "begun") ~> (pc[s] \in {"ok", "err500"})

C10_Witness ==
    \E s, t, u \in Slots :
        /\ pc[s] = "begun"
        /\ pc[t] = "lined" /\ KeyOf(t) = KeyOf(s)
        /\ pc[u] = "err500" /\ KeyOf(u) = KeyOf(s)

====
